---------------------------- MODULE Spec2Model ----------------------------
(***************************************************************************)
(* Model of the task runner declared in tasks.py: thirteen tasks, wired    *)
(* by the prerequisites their @task decorators name, whose bodies issue    *)
(* commands through a Context (ctx.run, ctx.cd, ctx.prefix).               *)
(*                                                                         *)
(* The task declarations and the bodies are translated from tasks.py.      *)
(* The orchestration core they run on (resolution of the prerequisites,    *)
(* execution in resolver order, the Context's scopes, the exit status) is  *)
(* not part of tasks.py; it is modelled from sections 4 to 7 of the        *)
(* specification.                                                          *)
(***************************************************************************)
EXTENDS Integers, Sequences, FiniteSets, TLC

VARIABLES
    registry,   \* task name -> sequence of prerequisite names
    request,    \* the task name the invocation asks for
    opts,       \* the options the invocation gives the requested task
    pc,         \* "start", "next" (between bodies), "body", "done"
    order,      \* resolver order of the request
    idx,        \* position in order of the running (or next) task
    body,       \* the instructions the running body has still to execute
    scopes,     \* the with-blocks the running body has open, innermost last,
                \* each with the Context it was entered in
    cwds,       \* Context: working-directory stack
    prefixes,   \* Context: command prefixes (the environment overlay)
    log,        \* the commands executed, in order, each with the Context it
                \* ran under, its status and the output captured from it
    messages,   \* the message_box calls, in order
    executed,   \* the tasks whose body was entered, in order
    stdout,     \* the lines of the captured output of the last hidden command
    tags,       \* the remote tags the tag task collected
    error,      \* "none" or the error that ended the invocation
    exitcode    \* the exit code of the invocation (-1 while it runs)

vars == <<registry, request, opts, pc, order, idx, body, scopes, cwds,
          prefixes, log, messages, executed, stdout, tags, error, exitcode>>

-----------------------------------------------------------------------------
(* Bounds of the model.                                                    *)

\* the longest prerequisite list of a generated registry
MaxPre == 2
\* a failing command reports a status in 1..MaxStatus
MaxStatus == 2
\* os.walk finds at most this many example scripts
MaxExamples == 2

-----------------------------------------------------------------------------
(* Sequence helpers.                                                       *)

Range(s) == {s[i] : i \in DOMAIN s}

Last(s) == s[Len(s)]

Front(s) == SubSeq(s, 1, Len(s) - 1)

IndexOf(s, x) == CHOOSE i \in DOMAIN s : s[i] = x

IsPrefix(s, t) == Len(s) <= Len(t) /\ SubSeq(t, 1, Len(s)) = s

NoDuplicates(s) == \A i, j \in DOMAIN s : s[i] = s[j] => i = j

RECURSIVE Concat(_)
Concat(ss) == IF ss = <<>> THEN <<>> ELSE Head(ss) \o Concat(Tail(ss))

\* the duplicate-free sequences over S of length at most n
RECURSIVE Lists(_, _)
Lists(S, n) ==
    IF n = 0 THEN {<<>>}
    ELSE LET shorter == Lists(S, n - 1)
             longer  == {Append(l, x) : l \in shorter, x \in S}
         IN  shorter \cup {l \in longer : NoDuplicates(l)}

-----------------------------------------------------------------------------
(* The registry tasks.py declares.                                         *)

PYTHON_PACKAGE_NAME == "colour_demosaicing"

PYPI_PACKAGE_NAME == "colour-demosaicing"

DeclaredTasks ==
    {"clean", "formatting", "tests", "quality", "examples", "docs", "todo",
     "preflight", "build", "virtualise", "tag", "release", "sha256"}

\* build declared without preflight
Prerequisites_NoPreflight(t) ==
    CASE t = "preflight"  -> <<"formatting", "tests", "quality", "examples">>
      [] t = "build"      -> <<"docs", "todo">>
      [] t = "virtualise" -> <<"clean", "build">>
      [] t = "release"    -> <<"clean", "build">>
      [] OTHER            -> <<>>

\* build's prerequisites declared in another order
Prerequisites_Reordered(t) ==
    CASE t = "preflight"  -> <<"formatting", "tests", "quality", "examples">>
      [] t = "build"      -> <<"preflight", "docs", "todo">>
      [] t = "virtualise" -> <<"clean", "build">>
      [] t = "release"    -> <<"clean", "build">>
      [] OTHER            -> <<>>

\* release declared with its prerequisites the other way round
Prerequisites_CleanLast(t) ==
    CASE t = "preflight"  -> <<"formatting", "tests", "quality", "examples">>
      [] t = "build"      -> <<"docs", "todo", "preflight">>
      [] t = "virtualise" -> <<"clean", "build">>
      [] t = "release"    -> <<"build", "clean">>
      [] OTHER            -> <<>>

\* preflight declared with build among its prerequisites
Prerequisites_Cyclic(t) ==
    CASE t = "preflight"  -> <<"formatting", "tests", "quality", "examples",
                               "build">>
      [] t = "build"      -> <<"docs", "todo", "preflight">>
      [] t = "virtualise" -> <<"clean", "build">>
      [] t = "release"    -> <<"clean", "build">>
      [] OTHER            -> <<>>

\* the prerequisites each @task decorator names
Prerequisites(t) ==
    CASE t = "preflight"  -> <<"formatting", "tests", "quality", "examples">>
      [] t = "build"      -> <<"docs", "todo", "preflight">>
      [] t = "virtualise" -> <<"clean", "build">>
      [] t = "release"    -> <<"clean", "build">>
      [] OTHER            -> <<>>

DeclaredRegistry == [t \in DeclaredTasks |-> Prerequisites(t)]

\* the keyword parameters of each task, with their defaults
Defaults(t) ==
    CASE t = "clean"      -> [docs |-> TRUE, bytecode |-> FALSE]
      [] t = "formatting" -> [yapf |-> FALSE, asciify |-> TRUE]
      [] t = "tests"      -> [nose |-> TRUE]
      [] t = "quality"    -> [flake8 |-> TRUE, rstlint |-> TRUE]
      [] t = "docs"       -> [html |-> TRUE, pdf |-> TRUE]
      [] t = "virtualise" -> [tests |-> TRUE]
      [] OTHER            -> <<>>

-----------------------------------------------------------------------------
(* The statements of a task body.  A body is the sequence of the           *)
(* statements it executes in program order; the statements after a         *)
(* "return" are the code the return makes unreachable.                     *)

Instr(op, arg, warn, hide) ==
    [op |-> op, arg |-> arg, warn |-> warn, hide |-> hide]

\* message_box(text)
Msg(text) == Instr("msg", text, FALSE, FALSE)

\* ctx.run(cmd, warn=True)
Run_Warn(cmd) == Instr("run", cmd, TRUE, FALSE)

\* ctx.run(cmd): no warn argument, so a non-zero status raises
Run(cmd) == Instr("run", cmd, FALSE, FALSE)

\* ctx.run(cmd, hide='both', warn=True)
Probe_Warn(cmd) == Instr("run", cmd, TRUE, TRUE)

\* ctx.run(cmd, hide='both'): the output is captured; no warn argument either
Probe(cmd) == Instr("run", cmd, FALSE, TRUE)

\* with ctx.cd(path):
Cd(path) == Instr("cd", path, FALSE, FALSE)

\* with ctx.prefix(cmd):
Prefix(cmd) == Instr("prefix", cmd, FALSE, FALSE)

\* the end of the innermost with-block
End == Instr("end", "", FALSE, FALSE)

\* return
Return == Instr("return", "", FALSE, FALSE)

\* assert <cond>, <message>
Check(cond) == Instr("assert", cond, FALSE, FALSE)

\* the version read from the package's __init__.py
ReadVersion == Instr("version", "", FALSE, FALSE)

\* the loop that collects the remote tags from the captured output
ParseTags == Instr("tags", "", FALSE, FALSE)

When(cond, instrs) == IF cond THEN instrs ELSE <<>>

\* the bytecode pattern appended before the docs patterns
clean_BytecodeFirst(o) ==
    LET patterns == <<"build", "*.egg-info", "dist">>
                    \o When(o.bytecode, <<"**/*.pyc">>)
                    \o When(o.docs, <<"docs/_build", "docs/generated">>)
    IN  <<Msg("Cleaning project...")>>
        \o [i \in DOMAIN patterns |-> Run("rm -rf " \o patterns[i])]

clean(o) ==
    LET patterns == <<"build", "*.egg-info", "dist">>
                    \o When(o.docs, <<"docs/_build", "docs/generated">>)
                    \o When(o.bytecode, <<"**/*.pyc">>)
    IN  <<Msg("Cleaning project...")>>
        \o [i \in DOMAIN patterns |-> Run("rm -rf " \o patterns[i])]

formatting(o) ==
    When(o.yapf, <<Msg("Formatting codebase with Yapf..."),
                   Run("yapf -p -i -r .")>>)
    \o When(o.asciify, <<Msg("Converting unicode characters to ASCII..."),
                         Cd("utilities"),
                         Run("./unicode_to_ascii.py"),
                         End>>)

\* the body without its early return
tests_NoReturn(o) ==
    IF o.nose
    THEN <<Msg("Running Nosetests..."),
           Run("nosetests --with-doctest --with-coverage --cover-package="
               \o PYTHON_PACKAGE_NAME \o " " \o PYTHON_PACKAGE_NAME)>>
    ELSE <<Msg("Running Pytest..."), Run("pytest -W ignore")>>

tests(o) ==
    <<Return>>
    \o (IF o.nose
        THEN <<Msg("Running Nosetests..."),
               Run("nosetests --with-doctest --with-coverage --cover-package="
                   \o PYTHON_PACKAGE_NAME \o " " \o PYTHON_PACKAGE_NAME)>>
        ELSE <<Msg("Running Pytest..."), Run("pytest -W ignore")>>)

quality(o) ==
    When(o.flake8, <<Msg("Checking codebase with Flake8..."),
                     Run("flake8 " \o PYTHON_PACKAGE_NAME
                         \o " --exclude=examples")>>)
    \o When(o.rstlint, <<Msg("Linting README.rst file..."),
                         Run("rst-lint README.rst")>>)

\* n is the number of *.py files os.walk finds under the examples directory
examples(n) ==
    <<Msg("Running examples...")>>
    \o [i \in 1..n |-> Run("python " \o PYTHON_PACKAGE_NAME \o "/examples/"
                           \o ToString(i) \o ".py")]

\* the HTML build in a third, innermost scope
docs_Deeper(o) ==
    <<Prefix("export COLOUR_SCIENCE_DOCUMENTATION_BUILD=True"), Cd("docs")>>
    \o When(o.html, <<Msg("Building HTML documentation..."),
                      Cd("_build"), Run("make html"), End>>)
    \o When(o.pdf, <<Msg("Building PDF documentation..."),
                     Run("make latexpdf")>>)
    \o <<End, End>>

docs(o) ==
    <<Prefix("export COLOUR_SCIENCE_DOCUMENTATION_BUILD=True"), Cd("docs")>>
    \o When(o.html, <<Msg("Building HTML documentation..."),
                      Run("make html")>>)
    \o When(o.pdf, <<Msg("Building PDF documentation..."),
                     Run("make latexpdf")>>)
    \o <<End, End>>

todo ==
    <<Msg("Exporting TODO items..."),
      Cd("utilities"), Run("./export_todo.py"), End>>

preflight == <<Msg("Finishing Preflight...")>>

\* the sdist command run with warn=True
build_Warned ==
    <<Msg("Building..."),
      Run_Warn("python setup.py sdist"),
      Run("python setup.py bdist_wheel --universal")>>

build ==
    <<Msg("Building..."),
      Run("python setup.py sdist"),
      Run("python setup.py bdist_wheel --universal")>>

\* the inner directory scope opened after the outer one was left
virtualise_Flat(o) ==
    LET pip_binary == "../staging/bin/pip"
        nosetests_binary == "../staging/bin/nosetests"
    IN  <<Cd("dist"),
          Run("tar -xvf " \o PYPI_PACKAGE_NAME \o "-*.tar.gz"),
          Run("virtualenv staging"),
          End,
          Cd(PYPI_PACKAGE_NAME \o "-*"),
          Run("pwd"),
          Run(pip_binary \o " install numpy==1.13.3"),
          Run(pip_binary \o " install -e ."),
          Run(pip_binary \o " install matplotlib"),
          Run(pip_binary \o " install nose"),
          Run(pip_binary \o " install mock")>>
        \o When(o.tests, <<Return, Run(nosetests_binary)>>)
        \o <<End>>

virtualise(o) ==
    LET pip_binary == "../staging/bin/pip"
        nosetests_binary == "../staging/bin/nosetests"
    IN  <<Cd("dist"),
          Run("tar -xvf " \o PYPI_PACKAGE_NAME \o "-*.tar.gz"),
          Run("virtualenv staging"),
          Cd(PYPI_PACKAGE_NAME \o "-*"),
          Run("pwd"),
          Run(pip_binary \o " install numpy==1.13.3"),
          Run(pip_binary \o " install -e ."),
          Run(pip_binary \o " install matplotlib"),
          Run(pip_binary \o " install nose"),
          Run(pip_binary \o " install mock")>>
        \o When(o.tests, <<Return, Run(nosetests_binary)>>)
        \o <<End, End>>

\* the tag v<version> of the version __init__.py declares
VersionTag == "v-current"

\* the body without the assertion on the branch
tag_NoBranchCheck ==
    <<Msg("Tagging..."),
      Probe("git rev-parse --abbrev-ref HEAD"),
      ReadVersion,
      Probe("git ls-remote --tags upstream"),
      ParseTags,
      Check("tag"),
      Run("git flow release start " \o VersionTag),
      Run("git flow release finish " \o VersionTag)>>

tag ==
    <<Msg("Tagging..."),
      Probe("git rev-parse --abbrev-ref HEAD"),
      Check("branch"),
      ReadVersion,
      Probe("git ls-remote --tags upstream"),
      ParseTags,
      Check("tag"),
      Run("git flow release start " \o VersionTag),
      Run("git flow release finish " \o VersionTag)>>

\* the two uploads in the other order
release_Swapped ==
    <<Msg("Releasing..."),
      Cd("dist"),
      Run("twine upload *.whl"),
      Run("twine upload *.tar.gz"),
      End>>

release ==
    <<Msg("Releasing..."),
      Cd("dist"),
      Run("twine upload *.tar.gz"),
      Run("twine upload *.whl"),
      End>>

sha256 ==
    <<Msg("Computing sha256..."),
      Cd("dist"),
      Run("openssl sha256 " \o PYPI_PACKAGE_NAME \o "-*.tar.gz"),
      End>>

-----------------------------------------------------------------------------
(* Generated registries.  Tasks are declared one after the other and a     *)
(* decorator can only name tasks declared before it, so every registry     *)
(* written like tasks.py is acyclic and closed.  The registry of the       *)
(* specification holds references by name: up to two defective references  *)
(* (to a task declared later, to the task itself, or to a name that is     *)
(* not registered) are added to cover its CycleDetected and UnknownTask.   *)

GenOrder == <<"Z", "Y", "X", "T">>

GenTasks == Range(GenOrder)

\* a name no registry declares
Ghost == "ghost"

Before(t) == {GenOrder[j] : j \in 1..(IndexOf(GenOrder, t) - 1)}

BaseRegistries ==
    {[t \in GenTasks |-> CASE t = "Z" -> z [] t = "Y" -> y
                           [] t = "X" -> x [] t = "T" -> tt] :
        z \in Lists(Before("Z"), MaxPre), y \in Lists(Before("Y"), MaxPre),
        x \in Lists(Before("X"), MaxPre), tt \in Lists(Before("T"), MaxPre)}

DefectEdges ==
    {e \in GenTasks \X (GenTasks \cup {Ghost}) :
        e[2] = Ghost \/ e[2] \notin Before(e[1])}

RECURSIVE AddEdges(_, _)
AddEdges(reg, es) ==
    IF es = <<>> THEN reg
    ELSE AddEdges([reg EXCEPT ![Head(es)[1]] = Append(@, Head(es)[2])],
                  Tail(es))

GenRegistries ==
    {AddEdges(b, es) : b \in BaseRegistries, es \in Lists(DefectEdges, 2)}

\* the body of a generated task: one command in a directory scope; the first
\* declared task first probes with a call that opts in to a non-zero status
GenBody(t) ==
    <<Cd(t)>>
    \o When(t = "Z", <<Instr("run", "probe " \o t, TRUE, TRUE)>>)
    \o <<Run("do " \o t), End>>

-----------------------------------------------------------------------------
(* 4.1 Dependency Resolver.                                                *)

RECURSIVE Visit(_, _, _, _)
RECURSIVE VisitAll(_, _, _, _)
\* a task met again is expanded again
Visit_NoDedupe(reg, t, stack, acc) ==
    IF acc.err # "none" THEN acc
    ELSE IF t \notin DOMAIN reg THEN [acc EXCEPT !.err = "UnknownTask"]
    ELSE IF t \in stack THEN [acc EXCEPT !.err = "CycleDetected"]
    ELSE LET sub == VisitAll(reg, reg[t], stack \cup {t}, acc)
         IN  IF sub.err # "none" THEN sub
             ELSE [sub EXCEPT !.order = Append(@, t)]

\* a task met while it is being expanded is taken as done
Visit_CycleSkipped(reg, t, stack, acc) ==
    IF acc.err # "none" THEN acc
    ELSE IF t \notin DOMAIN reg THEN [acc EXCEPT !.err = "UnknownTask"]
    ELSE IF t \in stack THEN acc
    ELSE IF t \in Range(acc.order) THEN acc
    ELSE LET sub == VisitAll(reg, reg[t], stack \cup {t}, acc)
         IN  IF sub.err # "none" THEN sub
             ELSE [sub EXCEPT !.order = Append(@, t)]

\* a name that is not registered is passed over
Visit_UnknownSkipped(reg, t, stack, acc) ==
    IF acc.err # "none" THEN acc
    ELSE IF t \notin DOMAIN reg THEN acc
    ELSE IF t \in stack THEN [acc EXCEPT !.err = "CycleDetected"]
    ELSE IF t \in Range(acc.order) THEN acc
    ELSE LET sub == VisitAll(reg, reg[t], stack \cup {t}, acc)
         IN  IF sub.err # "none" THEN sub
             ELSE [sub EXCEPT !.order = Append(@, t)]

\* depth-first: a task is emitted right after all its prerequisites; stack
\* holds the tasks being expanded, acc the order emitted so far
Visit(reg, t, stack, acc) ==
    IF acc.err # "none" THEN acc
    ELSE IF t \notin DOMAIN reg THEN [acc EXCEPT !.err = "UnknownTask"]
    ELSE IF t \in stack THEN [acc EXCEPT !.err = "CycleDetected"]
    ELSE IF t \in Range(acc.order) THEN acc
    ELSE LET sub == VisitAll(reg, reg[t], stack \cup {t}, acc)
         IN  IF sub.err # "none" THEN sub
             ELSE [sub EXCEPT !.order = Append(@, t)]

VisitAll(reg, ts, stack, acc) ==
    IF ts = <<>> THEN acc
    ELSE VisitAll(reg, Tail(ts), stack, Visit(reg, Head(ts), stack, acc))

resolve(reg, t) == Visit(reg, t, {}, [order |-> <<>>, err |-> "none"])

\* the exit code reserved for resolver errors (the specification reserves one
\* and does not give its value)
ResolverErrorCode == 2

\* the exit code of an exception no one catches
UncaughtExceptionCode == 1

-----------------------------------------------------------------------------
(* 4.2 Task Execution.                                                     *)

\* the invocation's option values handed to every task
OptionsFor_Forwarded(t) ==
    [k \in DOMAIN Defaults(t) |->
        IF DOMAIN opts # {} THEN opts[CHOOSE n \in DOMAIN opts : TRUE]
        ELSE Defaults(t)[k]]

\* the options a body is called with: the invocation's for the requested
\* task, the declared defaults for a prerequisite
OptionsFor(t) == IF t = request THEN opts ELSE Defaults(t)

OptionSets(t) == [DOMAIN Defaults(t) -> BOOLEAN]

\* the body of task t called with options o, n example scripts being present
BodyOf(t, o, n) ==
    CASE t = "clean"      -> clean(o)
      [] t = "formatting" -> formatting(o)
      [] t = "tests"      -> tests(o)
      [] t = "quality"    -> quality(o)
      [] t = "examples"   -> examples(n)
      [] t = "docs"       -> docs(o)
      [] t = "todo"       -> todo
      [] t = "preflight"  -> preflight
      [] t = "build"      -> build
      [] t = "virtualise" -> virtualise(o)
      [] t = "tag"        -> tag
      [] t = "release"    -> release
      [] t = "sha256"     -> sha256
      [] OTHER            -> GenBody(t)

\* what a hidden command can print, as the lines of its stripped output
Outputs(cmd) ==
    CASE cmd = "git rev-parse --abbrev-ref HEAD" ->
             {<<"develop">>, <<"master">>}
      [] cmd = "git ls-remote --tags upstream" ->
             {<<"">>, <<"v-other">>, <<VersionTag>>, <<"v-other", VersionTag>>}
      [] OTHER -> {<<"">>}

-----------------------------------------------------------------------------
(* 4.4 Context: the scopes.                                                *)

InvocationDir == "."

\* an open with-block: its kind ("cd" or "prefix") and the Context on entry
Scope(kind) == [kind |-> kind, cwds |-> cwds, prefixes |-> prefixes]

Count(open, kind) == Cardinality({i \in DOMAIN open : open[i].kind = kind})

\* leaving the with-blocks open pops what each of them pushed
Unwind(stack, open, kind) == SubSeq(stack, 1, Len(stack) - Count(open, kind))

\* a scope that releases only when its block ends normally
UnwindOnError_Kept(stack, open, kind) == stack

\* the same when an exception leaves them: the release is unconditional
UnwindOnError(stack, open, kind) == Unwind(stack, open, kind)

-----------------------------------------------------------------------------
(* One invocation: a request, resolved, then executed in resolver order.   *)

Requests(reg) ==
    IF reg = DeclaredRegistry THEN DeclaredTasks \cup {Ghost}
    ELSE GenTasks \cup {Ghost}

Init ==
    /\ registry \in {DeclaredRegistry} \cup GenRegistries
    /\ request \in Requests(registry)
    /\ opts \in OptionSets(request)
    /\ pc = "start"
    /\ order = <<>>
    /\ idx = 1
    /\ body = <<>>
    /\ scopes = <<>>
    /\ cwds = <<InvocationDir>>
    /\ prefixes = <<>>
    /\ log = <<>>
    /\ messages = <<>>
    /\ executed = <<>>
    /\ stdout = <<>>
    /\ tags = {}
    /\ error = "none"
    /\ exitcode = -1

\* the running task and the statement it is at
Current == order[idx]

AtInstr(op) == pc = "body" /\ body # <<>> /\ Head(body).op = op

\* an exception leaves the body: every open with-block is left, the Context
\* gets back what the block pushed, and the invocation ends with the code
Raise(err, code) ==
    /\ pc' = "done"
    /\ error' = err
    /\ exitcode' = code
    /\ body' = <<>>
    /\ scopes' = <<>>
    /\ cwds' = UnwindOnError(cwds, scopes, "cd")
    /\ prefixes' = UnwindOnError(prefixes, scopes, "prefix")

\* the next statement of the body, in the same scopes
Continue ==
    /\ body' = Tail(body)
    /\ UNCHANGED <<pc, error, exitcode>>

\* the request is looked up and resolved; a resolver error ends the invocation
Invoke ==
    /\ pc = "start"
    /\ LET r == resolve(registry, request)
       IN  IF r.err # "none"
           THEN /\ pc' = "done"
                /\ error' = r.err
                /\ exitcode' = ResolverErrorCode
                /\ order' = <<>>
           ELSE /\ pc' = "next"
                /\ order' = r.order
                /\ UNCHANGED <<error, exitcode>>
    /\ UNCHANGED <<registry, request, opts, idx, body, scopes, cwds, prefixes,
                   log, messages, executed, stdout, tags>>

\* the body of the next task of the order is entered
BeginTask ==
    /\ pc = "next"
    /\ idx <= Len(order)
    /\ \E n \in (IF Current = "examples" THEN 0..MaxExamples ELSE {0}) :
           body' = BodyOf(Current, OptionsFor(Current), n)
    /\ pc' = "body"
    /\ executed' = Append(executed, Current)
    /\ UNCHANGED <<registry, request, opts, order, idx, scopes, cwds, prefixes,
                   log, messages, stdout, tags, error, exitcode>>

\* message_box(text)
ShowMessage ==
    /\ AtInstr("msg")
    /\ messages' = Append(messages, Head(body).arg)
    /\ Continue
    /\ UNCHANGED <<registry, request, opts, order, idx, scopes, cwds, prefixes,
                   log, executed, stdout, tags>>

\* with ctx.cd(path): pushes the directory
EnterCd ==
    /\ AtInstr("cd")
    /\ cwds' = Append(cwds, Head(body).arg)
    /\ scopes' = Append(scopes, Scope("cd"))
    /\ Continue
    /\ UNCHANGED <<registry, request, opts, order, idx, prefixes, log,
                   messages, executed, stdout, tags>>

\* with ctx.prefix(cmd): pushes the prefix
EnterPrefix ==
    /\ AtInstr("prefix")
    /\ prefixes' = Append(prefixes, Head(body).arg)
    /\ scopes' = Append(scopes, Scope("prefix"))
    /\ Continue
    /\ UNCHANGED <<registry, request, opts, order, idx, cwds, log, messages,
                   executed, stdout, tags>>

\* the innermost with-block ends normally: it pops what it pushed
ExitScope ==
    /\ AtInstr("end")
    /\ scopes' = Front(scopes)
    /\ cwds' = Unwind(cwds, <<Last(scopes)>>, "cd")
    /\ prefixes' = Unwind(prefixes, <<Last(scopes)>>, "prefix")
    /\ Continue
    /\ UNCHANGED <<registry, request, opts, order, idx, log, messages,
                   executed, stdout, tags>>

\* ctx.run(cmd): the command runs in the Context's directory and prefixes; a
\* non-zero status raises unless the call opted in
RunCommand ==
    /\ AtInstr("run")
    /\ \E status \in 0..MaxStatus, out \in Outputs(Head(body).arg) :
        LET i == Head(body)
        IN  /\ log' = Append(log, [task |-> Current, cmd |-> i.arg,
                                   cwds |-> cwds, prefixes |-> prefixes,
                                   status |-> status, warn |-> i.warn,
                                   out |-> IF i.hide /\ (status = 0 \/ i.warn)
                                           THEN out ELSE <<>>])
            /\ IF status = 0 \/ i.warn
               THEN /\ stdout' = (IF i.hide THEN out ELSE stdout)
                    /\ Continue
                    /\ UNCHANGED <<scopes, cwds, prefixes>>
               ELSE /\ Raise("CommandFailed", status)
                    /\ UNCHANGED stdout
    /\ UNCHANGED <<registry, request, opts, order, idx, messages, executed,
                   tags>>

\* return: the body ends where it is, leaving its open with-blocks
DoReturn ==
    /\ AtInstr("return")
    /\ body' = <<>>
    /\ scopes' = <<>>
    /\ cwds' = Unwind(cwds, scopes, "cd")
    /\ prefixes' = Unwind(prefixes, scopes, "prefix")
    /\ UNCHANGED <<registry, request, opts, pc, order, idx, log, messages,
                   executed, stdout, tags, error, exitcode>>

\* the conditions the tag task asserts
Holds(cond) ==
    CASE cond = "branch" -> stdout = <<"develop">>
      [] cond = "tag"    -> VersionTag \notin tags

\* assert cond: an AssertionError when it does not hold
DoAssert ==
    /\ AtInstr("assert")
    /\ IF Holds(Head(body).arg)
       THEN Continue /\ UNCHANGED <<scopes, cwds, prefixes>>
       ELSE Raise("AssertionError", UncaughtExceptionCode)
    /\ UNCHANGED <<registry, request, opts, order, idx, log, messages,
                   executed, stdout, tags>>

\* __init__.py is opened and searched for the three version numbers; a file
\* that cannot be read or does not declare them raises
DoReadVersion ==
    /\ AtInstr("version")
    /\ \E found \in BOOLEAN :
           IF found
           THEN Continue /\ UNCHANGED <<scopes, cwds, prefixes>>
           ELSE Raise("Exception", UncaughtExceptionCode)
    /\ UNCHANGED <<registry, request, opts, order, idx, log, messages,
                   executed, stdout, tags>>

\* every line of the output is split at 'refs/tags/' and its second part
\* kept; a line without it (the only line of an empty output) raises IndexError
DoParseTags ==
    /\ AtInstr("tags")
    /\ IF "" \in Range(stdout)
       THEN Raise("Exception", UncaughtExceptionCode) /\ UNCHANGED tags
       ELSE /\ tags' = Range(stdout)
            /\ Continue
            /\ UNCHANGED <<scopes, cwds, prefixes>>
    /\ UNCHANGED <<registry, request, opts, order, idx, log, messages,
                   executed, stdout>>

\* the body reached its end: on to the next task of the order
EndTask ==
    /\ pc = "body"
    /\ body = <<>>
    /\ pc' = "next"
    /\ idx' = idx + 1
    /\ UNCHANGED <<registry, request, opts, order, body, scopes, cwds,
                   prefixes, log, messages, executed, stdout, tags, error,
                   exitcode>>

\* every task of the order ran: the invocation succeeds
Finish ==
    /\ pc = "next"
    /\ idx > Len(order)
    /\ pc' = "done"
    /\ exitcode' = 0
    /\ UNCHANGED <<registry, request, opts, order, idx, body, scopes, cwds,
                   prefixes, log, messages, executed, stdout, tags, error>>

Next ==
    \/ Invoke
    \/ BeginTask
    \/ ShowMessage
    \/ EnterCd
    \/ EnterPrefix
    \/ ExitScope
    \/ RunCommand
    \/ DoReturn
    \/ DoAssert
    \/ DoReadVersion
    \/ DoParseTags
    \/ EndTask
    \/ Finish

Spec == Init /\ [][Next]_vars

-----------------------------------------------------------------------------
(* What the properties below speak of.                                     *)

\* the tasks reachable from the set S along prerequisite references
RECURSIVE Closure(_, _)
Closure(reg, S) ==
    LET more == S \cup UNION {Range(reg[u]) : u \in S \cap DOMAIN reg}
    IN  IF more = S THEN S ELSE Closure(reg, more)

\* the transitive prerequisites of t
TransPre(reg, t) ==
    IF t \in DOMAIN reg THEN Closure(reg, Range(reg[t])) ELSE {}

\* every name the request leads to
Reachable(reg, t) == {t} \cup TransPre(reg, t)

\* some reference the request leads to is not registered
UnknownFrom(reg, t) == ~(Reachable(reg, t) \subseteq DOMAIN reg)

\* some task the request leads to depends on itself
CyclicFrom(reg, t) == \E u \in Reachable(reg, t) : u \in TransPre(reg, u)

\* the registry is closed and acyclic as far as the request reaches
WellFormed(reg, t) == ~UnknownFrom(reg, t) /\ ~CyclicFrom(reg, t)

Resolved == pc # "start" /\ error \notin {"UnknownTask", "CycleDetected"}

Succeeded == pc = "done" /\ error = "none"

\* log entry i is a command whose non-zero status is fatal
Fatal(i) == log[i].status # 0 /\ ~log[i].warn

-----------------------------------------------------------------------------
\* C1: for every task T of an acyclic registry, resolve(T) holds T and every
\* transitive prerequisite of T exactly once, each prerequisite strictly
\* before every task that depends on it; for the registry of tasks.py the
\* prerequisites are those the decorators of preflight, build, release and
\* virtualise name.
C1_ResolveOrder ==
    (pc # "start" /\ WellFormed(registry, request)) =>
        /\ Resolved
        /\ Range(order) = Reachable(registry, request)
        /\ NoDuplicates(order)
        /\ \A u \in Range(order) : \A p \in TransPre(registry, u) :
               /\ p \in Range(order)
               /\ IndexOf(order, p) < IndexOf(order, u)
        /\ Last(order) = request
        /\ (registry = DeclaredRegistry) =>
               LET pre == {"formatting", "tests", "quality", "examples"}
                   bld == pre \cup {"docs", "todo", "preflight"}
               IN  /\ request = "preflight" => Range(order) = pre \cup {request}
                   /\ request = "build" => Range(order) = bld \cup {request}
                   /\ request \in {"release", "virtualise"} =>
                          Range(order) = bld \cup {"clean", "build", request}
                   /\ request \notin {"preflight", "build", "release",
                                      "virtualise"} => order = <<request>>

C1_Witness ==
    /\ Succeeded
    /\ registry = DeclaredRegistry
    /\ request = "release"
    /\ order = <<"clean", "docs", "todo", "formatting", "tests", "quality",
                 "examples", "preflight", "build", "release">>

\* the order of the bodies a request of build runs, each once
BuildOrder ==
    <<"docs", "todo", "formatting", "tests", "quality", "examples",
      "preflight", "build">>

BuildRequested == registry = DeclaredRegistry /\ request = "build"

\* C2 (as amended): requesting build runs the bodies in the order docs, todo,
\* formatting, tests, quality, examples, preflight, build, each exactly once;
\* preflight's body runs after its four prerequisites and before build's, and
\* shows its message without issuing a command.
C2_BuildOrder ==
    BuildRequested =>
        /\ IsPrefix(executed, BuildOrder)
        /\ Succeeded => executed = BuildOrder
        /\ \A i \in DOMAIN log : log[i].task # "preflight"
        /\ ("build" \in Range(executed)) =>
               "Finishing Preflight..." \in Range(messages)

C2_Witness ==
    /\ BuildRequested
    /\ Succeeded
    /\ executed = BuildOrder
    /\ Len(log) >= 8

\* C2 (as claimed): requesting build runs the bodies in exactly the order
\* docs, todo, formatting, tests, quality, examples, build, preflight
\* contributing no body of its own.
C2_Original ==
    (BuildRequested /\ Succeeded) =>
        executed = <<"docs", "todo", "formatting", "tests", "quality",
                     "examples", "build">>

\* C3: when a command reports a non-zero status (and the call did not opt in,
\* as no call of tasks.py does), it is the last command of the invocation: no
\* further command of that body runs and no body of a later task of the
\* order is entered, then or ever after.
C3_StopOnFirstFailure ==
    /\ [](\A i \in DOMAIN log :
            (log[i].status # 0 /\ (registry = DeclaredRegistry \/ ~log[i].warn))
            => /\ i = Len(log)
               /\ pc = "done"
               /\ error = "CommandFailed"
               /\ body = <<>>
               /\ Last(executed) = log[i].task
               /\ executed = SubSeq(order, 1, Len(executed)))
    /\ [][(\E i \in DOMAIN log : Fatal(i))
            => (log' = log /\ executed' = executed /\ messages' = messages)]_vars

\* the chain A -> B -> C of the specification: T -> X -> Y, Y's body failing
C3_Witness ==
    /\ registry = [t \in GenTasks |-> CASE t = "T" -> <<"X">>
                                        [] t = "X" -> <<"Y">>
                                        [] OTHER   -> <<>>]
    /\ request = "T"
    /\ pc = "done"
    /\ error = "CommandFailed"
    /\ executed = <<"Y">>
    /\ Len(log) = 1

\* the prerequisites expanded in place, a task as often as it is reached
RECURSIVE Expand(_, _)
Expand(reg, t) ==
    Concat([i \in DOMAIN reg[t] |-> Expand(reg, reg[t][i])]) \o <<t>>

\* the first occurrence of every element
RECURSIVE Dedupe(_)
Dedupe(s) ==
    IF s = <<>> THEN <<>>
    ELSE LET front == Dedupe(Front(s))
         IN  IF Last(s) \in Range(front) THEN front ELSE Append(front, Last(s))

\* C4: a task Z that two tasks X and Y of the order both list runs exactly
\* once, before X's body and before Y's, at the place the traversal first
\* meets it: the bodies run in the order of the first occurrences in the
\* left-to-right expansion of the prerequisites.
C4_SharedPrerequisiteOnce ==
    (pc # "start" /\ WellFormed(registry, request)) =>
        /\ order = Dedupe(Expand(registry, request))
        /\ IsPrefix(executed, order)
        /\ \A x, y \in Range(executed) : \A z \in DOMAIN registry :
               (x # y /\ z \in Range(registry[x]) /\ z \in Range(registry[y]))
               => /\ Cardinality({i \in DOMAIN executed : executed[i] = z}) = 1
                  /\ IndexOf(executed, z) < IndexOf(executed, x)
                  /\ IndexOf(executed, z) < IndexOf(executed, y)

\* the diamond: T lists X and Y, which both list Z
C4_Witness ==
    /\ registry = [t \in GenTasks |-> CASE t = "T" -> <<"X", "Y">>
                                        [] t = "X" -> <<"Z">>
                                        [] t = "Y" -> <<"Z">>
                                        [] OTHER   -> <<>>]
    /\ request = "T"
    /\ Succeeded
    /\ executed = <<"Z", "X", "Y", "T">>

\* nothing was executed and the Context is as it was created
NoSideEffect ==
    /\ log = <<>>
    /\ executed = <<>>
    /\ messages = <<>>
    /\ cwds = <<InvocationDir>>
    /\ prefixes = <<>>

\* C5: leaving a directory or prefix scope gives the Context exactly the
\* state it had when the scope was entered, whether the block ends normally,
\* returns, or a command inside it fails (and then for every scope the
\* failure leaves, the nested ones included); once the invocation is over
\* the Context is as it was created.
C5_ScopeRestores ==
    /\ [](pc = "done" =>
            scopes = <<>> /\ cwds = <<InvocationDir>> /\ prefixes = <<>>)
    /\ [][Len(scopes') < Len(scopes)
            => LET outermost == scopes[Len(scopes') + 1]
               IN  /\ cwds' = outermost.cwds
                   /\ prefixes' = outermost.prefixes]_vars

\* a command fails two directory scopes deep
C5_Witness ==
    /\ pc = "done"
    /\ error = "CommandFailed"
    /\ Len(Last(log).cwds) = 3
    /\ cwds = <<InvocationDir>>

Failures ==
    {i \in DOMAIN log :
        log[i].status # 0 /\ (registry = DeclaredRegistry \/ ~log[i].warn)}

FirstFailure == CHOOSE i \in Failures : \A j \in Failures : i <= j

\* C8 (as amended): the exit code is 0 if and only if the resolution
\* succeeded, every command succeeded and no assertion or other exception was
\* raised in a body; when a command failed it is the status of the first
\* failing command, which is the only one; on a resolver error it is the
\* reserved code; when the tag task's assertion (or its parsing) fails it is
\* non-zero although every command succeeded.
C8_ExitCode ==
    pc = "done" =>
        /\ exitcode = 0 <=> (Failures = {} /\ error = "none")
        /\ Failures # {} =>
               /\ error = "CommandFailed"
               /\ exitcode = log[FirstFailure].status
               /\ Cardinality(Failures) = 1
        /\ error = "CommandFailed" => Failures # {}
        /\ error \in {"UnknownTask", "CycleDetected"} =>
               exitcode = ResolverErrorCode /\ log = <<>>
        /\ error \in {"AssertionError", "Exception"} =>
               /\ exitcode # 0
               /\ Failures = {}
               /\ Last(executed) = "tag"

C8_Witness ==
    /\ BuildRequested
    /\ pc = "done"
    /\ Last(log).cmd = "python setup.py sdist"
    /\ Last(log).status = 2
    /\ exitcode = 2

\* C8 (as claimed): the exit code is 0 if and only if every command of every
\* executed task succeeded (and the resolution did); otherwise it is the
\* status of the first failing command or the reserved resolver-error code.
C8_Original ==
    (pc = "done" /\ registry = DeclaredRegistry) =>
        /\ exitcode = 0 <=>
               /\ \A i \in DOMAIN log : log[i].status = 0
               /\ error \notin {"UnknownTask", "CycleDetected"}
        /\ exitcode # 0 =>
               \/ Failures # {} /\ exitcode = log[FirstFailure].status
               \/ /\ error \in {"UnknownTask", "CycleDetected"}
                  /\ exitcode = ResolverErrorCode

\* the commands a body issues when every command succeeds
RECURSIVE Commands(_)
Commands(instrs) ==
    IF instrs = <<>> \/ Head(instrs).op = "return" THEN <<>>
    ELSE IF Head(instrs).op = "run"
         THEN <<Head(instrs).arg>> \o Commands(Tail(instrs))
         ELSE Commands(Tail(instrs))

\* the commands task t issued
Issued(t) ==
    LET mine == SelectSeq(log, LAMBDA e : e.task = t)
    IN  [i \in DOMAIN mine |-> mine[i].cmd]

\* C9: the options of the invocation are the requested task's only: whatever
\* their values, every prerequisite issues the commands it issues with its
\* declared defaults (all of them once its body is through, a prefix of them
\* while it runs or when one fails).
C9_OptionsOwned ==
    \A t \in Range(executed) \ {request} :
        LET default == Commands(BodyOf(t, Defaults(t), MaxExamples))
            through == t # Last(executed) \/ pc = "next" \/ Succeeded
        IN  /\ IsPrefix(Issued(t), default)
            /\ (through /\ t # "examples") => Issued(t) = default

C9_Witness ==
    /\ registry = DeclaredRegistry
    /\ request = "virtualise"
    /\ opts.tests = FALSE
    /\ Succeeded
    /\ Len(Issued("clean")) = 5

\* C10: a non-zero status is fatal unless the call itself opts in: no call of
\* tasks.py opts in, the two hidden probes of tag included; a call that did
\* not opt in ends the invocation with CommandFailed and its status, also
\* when an earlier call had opted in; a call that opted in never ends it.
C10_FatalByDefault ==
    /\ registry = DeclaredRegistry => \A i \in DOMAIN log : ~log[i].warn
    /\ \A i \in DOMAIN log :
           Fatal(i) => /\ i = Len(log)
                       /\ pc = "done"
                       /\ error = "CommandFailed"
                       /\ exitcode = log[i].status
    /\ \A i \in DOMAIN log :
           (log[i].status # 0 /\ log[i].warn /\ error = "CommandFailed")
           => i < Len(log)

\* a later call fails fatally after a call that opted in had failed
C10_Witness ==
    \E i, j \in DOMAIN log :
        /\ i < j
        /\ log[i].warn
        /\ log[i].status # 0
        /\ Fatal(j)
        /\ error = "CommandFailed"

\* the log positions of the commands of the tasks in S
EntriesOf(S) == {i \in DOMAIN log : log[i].task \in S}

\* log entry i is the command cmd and it succeeded
Done(i, cmd) == log[i].cmd = cmd /\ log[i].status = 0

\* C11: the resolver order is the left-to-right depth-first expansion: all a
\* prerequisite of the request leads to is emitted before anything only a
\* later sibling leads to.  For release and virtualise (prerequisites clean,
\* build): every command of clean is issued before any command of docs, todo,
\* formatting, quality, examples or build, and the task's own commands are
\* issued only after build's sdist and bdist_wheel commands succeeded.
C11_DepthFirstLeftToRight ==
    /\ (pc # "start" /\ WellFormed(registry, request)) =>
           \A j \in DOMAIN registry[request] :
               LET earlier == UNION {Reachable(registry, registry[request][k]) :
                                        k \in 1..(j - 1)}
                   new     == Reachable(registry, registry[request][j]) \ earlier
               IN  \A a \in earlier, b \in new :
                       IndexOf(order, a) < IndexOf(order, b)
    /\ (registry = DeclaredRegistry /\ request \in {"release", "virtualise"}) =>
           /\ \A i \in EntriesOf({"docs", "todo", "formatting", "quality",
                                  "examples", "build"}) :
                  /\ Issued("clean") = Commands(clean(Defaults("clean")))
                  /\ \A c \in EntriesOf({"clean"}) : c < i
           /\ \A i \in EntriesOf({request}) :
                  \E j, k \in 1..(i - 1) :
                      /\ j < k
                      /\ Done(j, "python setup.py sdist")
                      /\ Done(k, "python setup.py bdist_wheel --universal")
                      /\ log[j].task = "build"
                      /\ log[k].task = "build"

C11_Witness ==
    /\ registry = DeclaredRegistry
    /\ request = "release"
    /\ Succeeded
    /\ Last(log).cmd = "twine upload *.whl"
    /\ log[1].cmd = "rm -rf build"

\* the directories and prefixes the commands of tasks.py are to run in
InDist == <<InvocationDir, "dist">>

InPackage == <<InvocationDir, "dist", "colour-demosaicing-*">>

DocsPrefix == <<"export COLOUR_SCIENCE_DOCUMENTATION_BUILD=True">>

PipCommands ==
    {"pwd",
     "../staging/bin/pip install numpy==1.13.3",
     "../staging/bin/pip install -e .",
     "../staging/bin/pip install matplotlib",
     "../staging/bin/pip install nose",
     "../staging/bin/pip install mock"}

\* C12: a scope nests in the directory current when it is entered and
\* applies to exactly the commands issued while it is open: virtualise's tar
\* and virtualenv run in dist, its pwd and pip commands in the inner directory
\* under dist; formatting's yapf runs in the invocation directory and its
\* unicode_to_ascii.py in utilities; both make commands of docs run in docs
\* under the COLOUR_SCIENCE_DOCUMENTATION_BUILD prefix, which no other command
\* carries.
C12_ScopesNest ==
    registry = DeclaredRegistry =>
        \A i \in DOMAIN log :
            LET e == log[i]
            IN  /\ e.task = "virtualise" =>
                       /\ e.cmd \in PipCommands => e.cwds = InPackage
                       /\ e.cmd \notin PipCommands => e.cwds = InDist
                /\ e.task = "formatting" =>
                       /\ e.cmd = "yapf -p -i -r ." =>
                              e.cwds = <<InvocationDir>>
                       /\ e.cmd = "./unicode_to_ascii.py" =>
                              e.cwds = <<InvocationDir, "utilities">>
                /\ e.task = "docs" =>
                       /\ e.cmd \in {"make html", "make latexpdf"}
                       /\ e.cwds = <<InvocationDir, "docs">>
                       /\ e.prefixes = DocsPrefix
                /\ e.task # "docs" => e.prefixes = <<>>
                /\ e.task \in {"clean", "quality", "examples", "build", "tag"}
                       => e.cwds = <<InvocationDir>>

C12_Witness ==
    /\ registry = DeclaredRegistry
    /\ request = "virtualise"
    /\ Succeeded
    /\ \E i, j, k \in DOMAIN log :
           /\ log[i].cmd = "make html" /\ log[i].prefixes = DocsPrefix
           /\ log[j].cmd = "virtualenv staging" /\ log[j].cwds = InDist
           /\ log[k].cmd = "../staging/bin/pip install mock"
           /\ log[k].cwds = InPackage

\* the commands executed so far
LogCommands == [i \in DOMAIN log |-> log[i].cmd]

\* the commands the request executes when every command succeeds and n
\* example scripts are present
AllCommands(n) ==
    Concat([i \in DOMAIN order |->
               Commands(BodyOf(order[i], OptionsFor(order[i]), n))])

\* C13 (as amended): no rollback: when a command fails, the commands executed
\* so far are left as they are and are a prefix, up to and including the
\* failing command, of the commands the same request executes when every
\* command succeeds (the whole of them when the failing command is the last
\* one); no command is issued after the failure: a failed upload of the
\* source archive leaves the wheel not uploaded, a failed rm -rf leaves the
\* remaining patterns alone.
C13_NoRollback ==
    /\ \E n \in 0..MaxExamples : IsPrefix(LogCommands, AllCommands(n))
    /\ \A i \in DOMAIN log : Fatal(i) => i = Len(log)
    /\ (registry = DeclaredRegistry /\ error = "CommandFailed") =>
           /\ Last(log).cmd = "twine upload *.tar.gz" =>
                  \A i \in DOMAIN log : log[i].cmd # "twine upload *.whl"
           /\ Last(log).cmd = "rm -rf dist" =>
                  /\ Len(log) = 3
                  /\ log[1].cmd = "rm -rf build"
                  /\ log[2].cmd = "rm -rf *.egg-info"

\* the first upload of release fails after everything before it succeeded
C13_Witness ==
    /\ registry = DeclaredRegistry
    /\ request = "release"
    /\ error = "CommandFailed"
    /\ Last(log).cmd = "twine upload *.tar.gz"
    /\ \E n \in 0..MaxExamples :
           /\ IsPrefix(LogCommands, AllCommands(n))
           /\ Len(AllCommands(n)) = Len(log) + 1

\* C13 (as claimed): when a command fails, the commands executed are a strict
\* prefix of the commands the request executes when every command succeeds.
C13_Original ==
    (pc = "done" /\ error = "CommandFailed" /\ registry = DeclaredRegistry) =>
        \E n \in 0..MaxExamples :
            /\ IsPrefix(LogCommands, AllCommands(n))
            /\ Len(LogCommands) < Len(AllCommands(n))

\* how often task t was entered
TimesExecuted(t) == Cardinality({i \in DOMAIN executed : executed[i] = t})

IsDag(reg) ==
    \A t \in DOMAIN reg :
        /\ t \notin TransPre(reg, t)
        /\ Range(reg[t]) \subseteq DOMAIN reg

\* C15: the prerequisite relation over the tasks tasks.py declares is a
\* directed acyclic graph (no task depends, directly or transitively, on
\* itself), and no step of resolution or execution changes the registry.
C15_RegistryAcyclicAndStatic ==
    /\ []((DeclaredTasks \subseteq DOMAIN registry) =>
            /\ DOMAIN registry = DeclaredTasks
            /\ IsDag(registry))
    /\ [][registry' = registry]_vars

\* virtualise ran through its whole order over the declared registry
C15_Witness ==
    /\ registry = DeclaredRegistry
    /\ request = "virtualise"
    /\ Succeeded
    /\ Len(executed) = 10
    /\ IsDag(registry)

GitFlowStart == "git flow release start v-current"

GitFlowFinish == "git flow release finish v-current"

\* C16: in the tag task, git flow release start is issued only after the
\* branch probe succeeded and printed exactly develop and the remote-tag
\* probe succeeded and did not list v<version>; when either precondition
\* fails the task aborts without a git flow command; git flow release finish
\* is issued only right after git flow release start succeeded.
C16_TagPreconditions ==
    registry = DeclaredRegistry =>
        /\ \A i \in DOMAIN log :
               log[i].cmd = GitFlowStart =>
                   /\ i = 3
                   /\ Done(1, "git rev-parse --abbrev-ref HEAD")
                   /\ log[1].out = <<"develop">>
                   /\ Done(2, "git ls-remote --tags upstream")
                   /\ VersionTag \notin Range(log[2].out)
                   /\ tags = Range(log[2].out)
        /\ \A i \in DOMAIN log :
               log[i].cmd = GitFlowFinish => i = 4 /\ Done(3, GitFlowStart)
        /\ (request = "tag" /\ pc = "done"
            /\ \A i \in DOMAIN log : log[i].cmd # GitFlowStart) =>
               /\ error # "none"
               /\ exitcode # 0
               /\ Len(log) <= 2
        /\ (request = "tag" /\ Succeeded) =>
               /\ Len(log) = 4
               /\ Done(4, GitFlowFinish)

\* the release was started and finished from develop, the tag being new
C16_Witness ==
    /\ registry = DeclaredRegistry
    /\ request = "tag"
    /\ Succeeded
    /\ log[1].out = <<"develop">>
    /\ log[2].out = <<"v-other">>
    /\ Done(3, GitFlowStart)
    /\ Done(4, GitFlowFinish)

\* the Context as it is created: the invocation directory, no prefix
FreshContext == cwds = <<InvocationDir>> /\ prefixes = <<>> /\ scopes = <<>>

\* C17: every task body starts in a Context whose directory stack holds the
\* invocation directory only and whose prefix overlay is empty, in every
\* invocation and for every combination of options; within a body at most two
\* scopes are open at a time.
C17_BodyStartsFresh ==
    /\ [](/\ Len(scopes) <= 2
          /\ Len(cwds) + Len(prefixes) = 1 + Len(scopes)
          /\ pc = "next" => FreshContext)
    /\ [][(pc = "next" /\ pc' = "body")
            => /\ cwds' = <<InvocationDir>>
               /\ prefixes' = <<>>
               /\ scopes' = <<>>]_vars

\* todo's body starts after docs' body, which had two scopes open
C17_Witness ==
    /\ registry = DeclaredRegistry
    /\ request = "build"
    /\ pc = "body"
    /\ executed = <<"docs", "todo">>
    /\ body = todo
    /\ Len(log) = 2
    /\ Len(log[1].cwds) + Len(log[1].prefixes) = 3
    /\ FreshContext

\* the rm commands of clean, pattern by pattern
RmAlways == <<"rm -rf build", "rm -rf *.egg-info", "rm -rf dist">>

RmDocs == <<"rm -rf docs/_build", "rm -rf docs/generated">>

RmBytecode == <<"rm -rf **/*.pyc">>

\* C18: clean issues one rm -rf per pattern, in the order build, *.egg-info,
\* dist, then docs/_build and docs/generated exactly when docs is true, then
\* **/*.pyc exactly when bytecode is true; no command is issued twice; when
\* one of them fails the remaining patterns are not processed (the failing
\* command is the last command of the invocation).
C18_CleanPatterns ==
    ("clean" \in Range(executed)) =>
        LET o == OptionsFor("clean")
            expected == RmAlways
                        \o (IF o.docs THEN RmDocs ELSE <<>>)
                        \o (IF o.bytecode THEN RmBytecode ELSE <<>>)
            issued == Issued("clean")
            failed == {i \in EntriesOf({"clean"}) : log[i].status # 0}
            through == Last(executed) # "clean" \/ pc = "next" \/ Succeeded
        IN  /\ IsPrefix(issued, expected)
            /\ \A i, j \in DOMAIN issued : issued[i] = issued[j] => i = j
            /\ through => (failed = {} /\ issued = expected)
            /\ \A i \in failed : /\ i = Len(log)
                                 /\ pc = "done"
                                 /\ error = "CommandFailed"

\* clean requested without docs and with bytecode: four commands
C18_Witness ==
    /\ request = "clean"
    /\ opts.docs = FALSE
    /\ opts.bytecode = TRUE
    /\ Succeeded
    /\ Issued("clean") = RmAlways \o RmBytecode

=============================================================================
